---- MODULE Spec2Model ----
(***************************************************************************)
(* Model of one_vote_game: the live puzzle protocol (play_game), the Game  *)
(* page finalisation, the settlement engine (set_payoffs) and the          *)
(* treatment assignor (assign_treatment).                                  *)
(*                                                                         *)
(* Encodings.                                                              *)
(*  - A nullable Python value is a sequence of length at most one:         *)
(*    None is <<>> and a value v is <<v>>.                                 *)
(*  - A rate (0.4, 0.5, 0.2, 2.5) is a whole number of hundredths.         *)
(*  - A currency amount is a whole number of 1/Unit points, Unit chosen    *)
(*    so that every product and quotient of the settlement is exact; the   *)
(*    rounding of otree's Currency type is outside the repository and is   *)
(*    not modelled.                                                        *)
(*  - time.time() is the clock `now`, advanced by Tick.                    *)
(***************************************************************************)
EXTENDS Integers, Sequences, FiniteSets, TLC

VARIABLES
    params,      \* session.params, set by creating_session
    now,         \* time.time()
    player,      \* Player record of each participant (of the round it is in)
    puzzles,     \* Puzzle store: per participant, the records in creation order
    group,       \* Group record of each round
    msg,         \* the event handled by the last step
    resp,        \* what the last step returned (or the error it raised)
    coins,       \* the random draws of the last assign_treatment
    arrived,     \* per round: the wait page's after_all_players_arrive has run
    num_issued   \* history: number of `next` messages that issued a puzzle

vars == <<params, now, player, puzzles, group, msg, resp, coins, arrived, num_issued>>

----------------------------------------------------------------------------
(* Bounds of the model *)

MaxTime == 2
MaxPuzzles == 2
MaxAttempts == 2
MaxCap == 1
MaxDrift == 0
MaxCorrect == 5
MaxReport == 3

(* Program constants: class Constants *)

players_per_group == 3
vote_round == 2
num_rounds == 2 * vote_round - 1
tax_rate == 40
redistribution_multiplier == 50
default_audit_prob == 20
modified_audit_prob == 50
real_effort_multiplier == 100

Percent == 10 * 10
penalty_multiplier == (Percent * Percent) \div tax_rate
Unit == Percent * players_per_group

Players == 1..players_per_group
Rounds == 1..num_rounds

----------------------------------------------------------------------------
(* Nullable values *)

None == <<>>
Some(v) == <<v>>
Val(o) == o[1]

\* Python truthiness of a nullable number: None and 0 are falsy
Truthy(o) == o # None /\ Val(o) # 0

----------------------------------------------------------------------------
(* Session configuration: the delays stay at creating_session's defaults,  *)
(* attempts_per_puzzle and max_iterations range over the configurable      *)
(* values                                                                  *)

retry_delay == 1
puzzle_delay == 1

AttemptLimits == {0, 1, MaxAttempts}
IterationCaps == {None, Some(0), Some(MaxCap)}

\* session.params as creating_session fills it from session.config
creating_session(attempts, cap) ==
    [retry_delay |-> retry_delay, puzzle_delay |-> puzzle_delay,
     attempts_per_puzzle |-> attempts, max_iterations |-> cap]

----------------------------------------------------------------------------
(* Records *)

NewPlayer(r) ==
    [round_number |-> r, page |-> "Game",
     iteration |-> 0, num_trials |-> 0, num_correct |-> 0, num_failed |-> 0,
     real_effort_income |-> None, reported_income |-> None,
     tax_paid |-> None, if_audited |-> None, payoff |-> None, if_vote |-> None]

NewGroup ==
    [total_tax_paid |-> None, individual_share |-> None, treatment |-> None,
     total_if_vote |-> None, if_override |-> None, audit_weight |-> None]

\* Puzzle.create(player=player, iteration=..., timestamp=..., **fields)
NewPuzzle(it, ts) ==
    [iteration |-> it, attempts |-> 0, timestamp |-> ts, solution |-> "ok",
     response |-> None, response_timestamp |-> None, is_correct |-> None]

\* a live message: its type, the participant it comes from, its 'answer' field
Message(t, p, a) == [type |-> t, player |-> p, answer |-> a]

\* the event the last step handled, as the state records it
NoEvent == [type |-> "none", player |-> 0, timeout_happened |-> None]
Event(t, p) == [NoEvent EXCEPT !.type = t, !.player = p]

NoResp ==
    [type |-> "none", progress |-> None, puzzle |-> None, iterations_left |-> None,
     is_correct |-> None, retries_left |-> None, solution |-> None, error |-> None]
Raise(e) == [NoResp EXCEPT !.type = "error", !.error = Some(e)]

NoCoins == [computer_control |-> None, dice |-> None]

----------------------------------------------------------------------------
(* Helpers of the live protocol: pl is a Player record, pz the sequence of *)
(* that player's Puzzle records                                            *)

\* mutant of CurrentIdx: the filter leaves the iteration out and the first
\* record is taken
CurrentIdx_first(pl, pz) == IF Len(pz) > 0 THEN {1} ELSE {}

\* indices of the records Puzzle.filter(player=player, iteration=player.iteration) returns
CurrentIdx(pl, pz) == {i \in 1..Len(pz) : pz[i].iteration = pl.iteration}

\* get_current_puzzle: the matching record, or None
get_current_puzzle(pl, pz) ==
    IF CurrentIdx(pl, pz) = {} THEN None
    ELSE Some(pz[CHOOSE i \in CurrentIdx(pl, pz) : TRUE])

get_progress(pl) ==
    [num_trials |-> pl.num_trials, num_correct |-> pl.num_correct,
     num_incorrect |-> pl.num_failed, iteration |-> pl.iteration]

\* encode_puzzle: the rendered content of the record, identified by its iteration
encode_puzzle(z) == [image |-> z.iteration]

\* task_module.is_correct(answer, puzzle)
is_correct(answer, z) == answer = z.solution

\* what one call of play_game leaves behind: the player, the store, the response
Outcome(pl, pz, r) == [player |-> pl, puzzles |-> pz, resp |-> r]

\* mutant of generate_puzzle: the record is created, the counter is not advanced
generate_puzzle_same_iteration(pl, pz, t) ==
    Outcome(pl, Append(pz, NewPuzzle(pl.iteration, t)), NoResp)

\* generate_puzzle: player.iteration += 1, then Puzzle.create(...)
generate_puzzle(pl, pz, t) ==
    LET pl2 == [pl EXCEPT !.iteration = @ + 1]
    IN  Outcome(pl2, Append(pz, NewPuzzle(pl2.iteration, t)), NoResp)

\* mutant of on_load: a page load is counted as a trial
on_load_counted(pl, pz) ==
    LET pl2 == [pl EXCEPT !.num_trials = @ + 1]
    IN  Outcome(pl2, pz, [NoResp EXCEPT !.type = "status",
                                        !.progress = Some(get_progress(pl2))])

\* message_type == 'load'
on_load(pl, pz) ==
    LET current == get_current_puzzle(pl, pz)
        status == [NoResp EXCEPT !.type = "status", !.progress = Some(get_progress(pl))]
    IN  IF current # None
        THEN Outcome(pl, pz, [status EXCEPT !.puzzle = Some(encode_puzzle(Val(current)))])
        ELSE Outcome(pl, pz, status)

\* message_type == 'cheat': answered only when settings.DEBUG
on_cheat(pl, pz, debug) ==
    LET current == get_current_puzzle(pl, pz)
    IN  IF ~debug THEN Outcome(pl, pz, Raise("unrecognized message from client"))
        ELSE IF current = None THEN Outcome(pl, pz, Raise("AttributeError"))
        ELSE Outcome(pl, pz, [NoResp EXCEPT !.type = "solution",
                                            !.solution = Some(Val(current).solution)])

\* mutant of skipping_unsolved: the unanswered puzzle is not protected
skipping_unsolved_unchecked(current) == FALSE

\* current is not None and current.response is None
skipping_unsolved(current) == current # None /\ Val(current).response = None

\* current is not None and now < current.timestamp + params["puzzle_delay"]
next_too_fast(current, t) ==
    current # None /\ t < Val(current).timestamp + params.puzzle_delay

\* mutant of budget_exhausted: the cap is never recognised
budget_exhausted_never(current) == FALSE

\* current is not None and current.iteration == params['max_iterations']
budget_exhausted(current) ==
    current # None /\ Some(Val(current).iteration) = params.max_iterations

\* message_type == 'next'
on_next(pl, pz, t) ==
    LET current == get_current_puzzle(pl, pz)
    IN  IF skipping_unsolved(current)
        THEN Outcome(pl, pz, Raise("trying to skip over unsolved puzzle"))
        ELSE IF next_too_fast(current, t)
        THEN Outcome(pl, pz, Raise("retrying too fast"))
        ELSE IF budget_exhausted(current)
        THEN Outcome(pl, pz, [NoResp EXCEPT !.type = "status",
                                            !.progress = Some(get_progress(pl)),
                                            !.iterations_left = Some(0)])
        ELSE LET g == generate_puzzle(pl, pz, t)
                 z == g.puzzles[Len(g.puzzles)]
             IN  Outcome(g.player, g.puzzles,
                         [NoResp EXCEPT !.type = "puzzle",
                                        !.puzzle = Some(encode_puzzle(z)),
                                        !.progress = Some(get_progress(g.player))])

\* mutant of undo_progress: a retry does not take back the previous attempt
undo_progress_skipped(pl, z) == pl

\* "undo last updation of player progress"
undo_progress(pl, z) ==
    [pl EXCEPT !.num_trials = @ - 1,
               !.num_correct = IF z.is_correct = Some(TRUE) THEN @ - 1 ELSE @,
               !.num_failed = IF z.is_correct = Some(TRUE) THEN @ ELSE @ - 1]

\* "update player progress"
update_progress(pl, z) ==
    [pl EXCEPT !.num_correct = IF z.is_correct = Some(TRUE) THEN @ + 1 ELSE @,
               !.num_failed = IF z.is_correct = Some(TRUE) THEN @ ELSE @ + 1,
               !.num_trials = @ + 1]

\* the judged answer written to the current record
record_answer(z, answer, t) ==
    [z EXCEPT !.response = Some(answer),
              !.is_correct = Some(is_correct(answer, z)),
              !.response_timestamp = Some(t),
              !.attempts = @ + 1]

\* the retry limit: current.attempts >= params["attempts_per_puzzle"]
no_more_attempts(z) == z.attempts >= params.attempts_per_puzzle

\* mutant of retry_too_fast: retries are not rate-limited
retry_too_fast_unchecked(z, t) == FALSE

\* now < current.response_timestamp + params["retry_delay"]
retry_too_fast(z, t) == t < Val(z.response_timestamp) + params.retry_delay

\* answer == "" or answer is None
bogus_answer(answer) == answer = None \/ answer = Some("")

\* message_type == 'answer'. The undo of a retry runs before the answer is
\* validated, so a rejected retry leaves the player object decremented;
\* whether the object is then saved is the persistence layer's business
\* (outside the repository): `saved` ranges over both.
on_answer(pl, pz, answer, t, saved) ==
    LET current == get_current_puzzle(pl, pz)
        z == Val(current)
        i == CHOOSE k \in CurrentIdx(pl, pz) : TRUE
        retry == z.response # None
        pl1 == IF retry THEN undo_progress(pl, z) ELSE pl
        z2 == record_answer(z, Val(answer), t)
        pl2 == update_progress(pl1, z2)
    IN  IF current = None
        THEN Outcome(pl, pz, Raise("trying to answer no puzzle"))
        ELSE IF retry /\ no_more_attempts(z)
        THEN Outcome(pl, pz, Raise("no more attempts allowed"))
        ELSE IF retry /\ retry_too_fast(z, t)
        THEN Outcome(pl, pz, Raise("retrying too fast"))
        ELSE IF bogus_answer(answer)
        THEN Outcome(IF saved THEN pl1 ELSE pl, pz, Raise("bogus answer"))
        ELSE Outcome(pl2, [pz EXCEPT ![i] = z2],
                     [NoResp EXCEPT !.type = "feedback",
                                    !.is_correct = z2.is_correct,
                                    !.retries_left =
                                        Some(params.attempts_per_puzzle - z2.attempts),
                                    !.progress = Some(get_progress(pl2))])

\* play_game: dispatch on message['type']
play_game(pl, pz, m, t, debug, saved) ==
    IF m.type = "load" THEN on_load(pl, pz)
    ELSE IF m.type = "cheat" THEN on_cheat(pl, pz, debug)
    ELSE IF m.type = "next" THEN on_next(pl, pz, t)
    ELSE IF m.type = "answer" THEN on_answer(pl, pz, m.answer, t, saved)
    ELSE Outcome(pl, pz, Raise("unrecognized message from client"))

----------------------------------------------------------------------------
(* The Game page *)

Answers == {None, Some(""), Some("ok"), Some("bad")}

LiveMessages(p) ==
    {Message(t, p, None) : t \in {"load", "cheat", "next", "bogus"}}
        \cup {Message("answer", p, a) : a \in Answers}

\* the inputs of one call: the message, settings.DEBUG, and whether the
\* player object of a rejected call is saved
LiveInputs(p) ==
    {<<m, FALSE, FALSE>> : m \in LiveMessages(p)}
        \cup {<<Message("cheat", p, None), TRUE, FALSE>>}
        \cup {<<Message("answer", p, a), FALSE, TRUE>> : a \in {None, Some("")}}

\* Game.is_displayed
Game_is_displayed(pl) == pl.round_number # vote_round

\* Game.live_method = play_game: one inbound message of participant p.
\* MaxPuzzles caps the store; MaxDrift caps how far below zero rejected
\* retries can take the counters.
Live(p) ==
    /\ player[p].page = "Game"
    /\ Game_is_displayed(player[p])
    /\ \E in \in LiveInputs(p) :
         LET m == in[1]
             o == play_game(player[p], puzzles[p], m, now, in[2], in[3])
             issued == m.type = "next" /\ o.resp.type = "puzzle"
         IN  /\ Len(o.puzzles) <= MaxPuzzles
             /\ o.player.num_trials >= 0 - MaxDrift
             /\ player' = [player EXCEPT ![p] = o.player]
             /\ puzzles' = [puzzles EXCEPT ![p] = o.puzzles]
             /\ resp' = o.resp
             /\ msg' = Event(m.type, p)
             /\ num_issued' = IF issued THEN [num_issued EXCEPT ![p] = @ + 1]
                              ELSE num_issued
    /\ UNCHANGED <<params, now, group, coins, arrived>>

\* the wall clock advances
Tick ==
    /\ now < MaxTime
    /\ now' = now + 1
    /\ msg' = Event("tick", 0)
    /\ resp' = NoResp
    /\ UNCHANGED <<params, player, puzzles, group, coins, arrived, num_issued>>

\* mutant of audit_weight_of: the audit probability ignores the treatment
audit_weight_flat(treatment) == default_audit_prob

\* the audit probability of the round, from the stored treatment
audit_weight_of(treatment) ==
    IF treatment = Some("EndoYes") \/ treatment = Some("ExoYes")
    THEN modified_audit_prob ELSE default_audit_prob

\* the integrity check of Game.before_next_page
malicious_submission(timeout_happened) ==
    ~timeout_happened /\ ~Truthy(params.max_iterations)

\* mutant of Game_before_next_page: a later round does not look the
\* treatment up but sets it afresh, in its own group and in the vote round's
Game_before_next_page_relabel(p, timeout_happened) ==
    LET r == player[p].round_number
        m == [Event("before_next_page", p) EXCEPT
                  !.timeout_happened = Some(timeout_happened)]
    IN  /\ player[p].page = "Game"
        /\ Game_is_displayed(player[p])
        /\ msg' = m
        /\ IF malicious_submission(timeout_happened)
           THEN /\ resp' = Raise("malicious page submission")
                /\ UNCHANGED <<player, group>>
           ELSE /\ resp' = [NoResp EXCEPT !.type = "page"]
                /\ player' = [player EXCEPT
                       ![p].real_effort_income =
                           Some(player[p].num_correct * real_effort_multiplier * Unit),
                       ![p].page = "Contribute"]
                /\ group' = IF r < vote_round
                            THEN [group EXCEPT ![r].audit_weight = Some(default_audit_prob)]
                            ELSE [group EXCEPT
                                   ![r].treatment = Some("EndoNo"),
                                   ![vote_round].treatment = Some("EndoNo"),
                                   ![r].audit_weight = Some(default_audit_prob)]
        /\ UNCHANGED <<params, now, puzzles, coins, arrived, num_issued>>

\* Game.before_next_page(player, timeout_happened)
Game_before_next_page(p, timeout_happened) ==
    LET r == player[p].round_number
        m == [Event("before_next_page", p) EXCEPT
                  !.timeout_happened = Some(timeout_happened)]
    IN  /\ player[p].page = "Game"
        /\ Game_is_displayed(player[p])
        /\ msg' = m
        /\ IF malicious_submission(timeout_happened)
           THEN /\ resp' = Raise("malicious page submission")
                /\ UNCHANGED <<player, group>>
           ELSE /\ resp' = [NoResp EXCEPT !.type = "page"]
                /\ player' = [player EXCEPT
                       ![p].real_effort_income =
                           Some(player[p].num_correct * real_effort_multiplier * Unit),
                       ![p].page = "Contribute"]
                /\ group' = IF r < vote_round
                            THEN [group EXCEPT ![r].audit_weight = Some(default_audit_prob)]
                            ELSE [group EXCEPT
                                   ![r].treatment = group[vote_round].treatment,
                                   ![r].audit_weight =
                                       Some(audit_weight_of(group[vote_round].treatment))]
        /\ UNCHANGED <<params, now, puzzles, coins, arrived, num_issued>>

----------------------------------------------------------------------------
(* Spec: one participant on the Game page of round 1, under every          *)
(* configuration                                                           *)

GamePlayers == {1}

Init ==
    /\ params \in {creating_session(attempts, cap) :
                     attempts \in AttemptLimits, cap \in IterationCaps}
    /\ now = 0
    /\ player = [p \in Players |-> NewPlayer(1)]
    /\ puzzles = [p \in Players |-> <<>>]
    /\ group = [r \in Rounds |-> NewGroup]
    /\ msg = NoEvent
    /\ resp = NoResp
    /\ coins = NoCoins
    /\ arrived = [r \in Rounds |-> FALSE]
    /\ num_issued = [p \in Players |-> 0]

Next ==
    \/ Tick
    \/ \E p \in GamePlayers : Live(p)
    \/ \E p \in GamePlayers, timeout_happened \in BOOLEAN :
         Game_before_next_page(p, timeout_happened)

Spec == Init /\ [][Next]_vars

----------------------------------------------------------------------------
(* Arithmetic of the settlement *)

RECURSIVE SumOver(_, _)
\* sum(f[p] for p in S)
SumOver(f, S) ==
    IF S = {} THEN 0
    ELSE LET x == CHOOSE y \in S : TRUE IN f[x] + SumOver(f, S \ {x})

\* amount * rate, the rate in hundredths
Times(amount, rate) == (amount * rate) \div Percent

\* a whole number of points as an amount
Points(n) == n * Unit

\* p.reported_income * Constants.tax_rate
tax_of(reported) == Times(reported, tax_rate)

\* mutant of individual_share_of: the redistribution multiplier is left out
individual_share_undiscounted(total) == total \div players_per_group

\* group.total_tax_paid * Constants.redistribution_multiplier / Constants.players_per_group
individual_share_of(total) ==
    Times(total, redistribution_multiplier) \div players_per_group

\* Constants.penalty_multiplier*Constants.tax_rate*(p.real_effort_income-p.reported_income)
penalty_of(real, reported) ==
    Times(real - reported, Times(penalty_multiplier, tax_rate))

\* mutant of payoff_of: the penalty is charged at the tax rate only
payoff_penalty_at_tax_rate(real, reported, tax, share, audited) ==
    IF audited = 1
    THEN real - tax + share - Times(real - reported, tax_rate)
    ELSE real - tax + share

\* p.payoff, by p.if_audited
payoff_of(real, reported, tax, share, audited) ==
    IF audited = 1
    THEN real - tax + share - penalty_of(real, reported)
    ELSE real - tax + share

\* the outcomes random.choices([1,0], weights=[w, 1-w]) can return
audit_draws(w) == {x \in {1, 0} : IF x = 1 THEN w > 0 ELSE Percent - w > 0}

----------------------------------------------------------------------------
(* Pages after the Game page *)

AllOn(r, page) ==
    \A p \in Players : player[p].round_number = r /\ player[p].page = page

\* Contribute: the form stores reported_income (min=0)
Contribute_submit(p, income) ==
    /\ player[p].page = "Contribute"
    /\ income >= 0
    /\ player' = [player EXCEPT ![p].reported_income = Some(income),
                                ![p].page = "ContributeWaitPage"]
    /\ msg' = Event("Contribute", p)
    /\ resp' = [NoResp EXCEPT !.type = "page"]
    /\ UNCHANGED <<params, now, puzzles, group, coins, arrived, num_issued>>

\* ContributeWaitPage.after_all_players_arrive = set_payoffs
set_payoffs(r) ==
    /\ AllOn(r, "ContributeWaitPage")
    /\ ~arrived[r]
    /\ \E audits \in [Players -> {1, 0}] :
         LET tax == [p \in Players |-> tax_of(Val(player[p].reported_income))]
             total == SumOver(tax, Players)
             share == individual_share_of(total)
         IN  /\ \A p \in Players : audits[p] \in audit_draws(Val(group[r].audit_weight))
             /\ player' = [p \in Players |->
                    [player[p] EXCEPT
                       !.tax_paid = Some(tax[p]),
                       !.if_audited = Some(audits[p]),
                       !.payoff = Some(payoff_of(Val(player[p].real_effort_income),
                                                 Val(player[p].reported_income),
                                                 tax[p], share, audits[p]))]]
             /\ group' = [group EXCEPT ![r].total_tax_paid = Some(total),
                                       ![r].individual_share = Some(share)]
    /\ arrived' = [arrived EXCEPT ![r] = TRUE]
    /\ msg' = Event("set_payoffs", 0)
    /\ resp' = NoResp
    /\ UNCHANGED <<params, now, puzzles, coins, num_issued>>

\* Vote: the form stores if_vote
Vote_submit(p, vote) ==
    /\ player[p].page = "Vote"
    /\ player' = [player EXCEPT ![p].if_vote = Some(vote),
                                ![p].page = "VoteWaitPage"]
    /\ msg' = Event("Vote", p)
    /\ resp' = [NoResp EXCEPT !.type = "page"]
    /\ UNCHANGED <<params, now, puzzles, group, coins, arrived, num_issued>>

\* mutant of vote_passes: the tally is compared with the group size, not half of it
vote_passes_unhalved(total) == total > players_per_group

\* group.total_if_vote > Constants.players_per_group/2
vote_passes(total) == 2 * total > players_per_group

\* mutant of treatment_of: the override flag is set but the vote outcome stands
treatment_ignoring_override(total, computer_control, dice) ==
    IF vote_passes(total) THEN "EndoYes" ELSE "EndoNo"

\* the label assign_treatment leaves in group.treatment
treatment_of(total, computer_control, dice) ==
    IF computer_control = 1
    THEN (IF dice = 1 THEN "ExoYes" ELSE "ExoNo")
    ELSE (IF vote_passes(total) THEN "EndoYes" ELSE "EndoNo")

\* VoteWaitPage.after_all_players_arrive = assign_treatment; the second coin
\* is drawn only when the first one fires
assign_treatment(r) ==
    /\ AllOn(r, "VoteWaitPage")
    /\ ~arrived[r]
    /\ \E computer_control \in {1, 0}, dice \in {1, 0} :
         LET votes == [p \in Players |-> IF Val(player[p].if_vote) THEN 1 ELSE 0]
             total == SumOver(votes, Players)
         IN  /\ computer_control = 0 => dice = 0
             /\ group' = [group EXCEPT
                    ![r].total_if_vote = Some(total),
                    ![r].treatment = Some(treatment_of(total, computer_control, dice)),
                    ![r].if_override = Some(computer_control)]
             /\ coins' = [computer_control |-> Some(computer_control),
                          dice |-> IF computer_control = 1 THEN Some(dice) ELSE None]
    /\ arrived' = [arrived EXCEPT ![r] = TRUE]
    /\ msg' = Event("assign_treatment", 0)
    /\ resp' = NoResp
    /\ UNCHANGED <<params, now, player, puzzles, num_issued>>

\* mutant of WaitPage_release: the wait page lets a participant through
\* without waiting for the group
WaitPage_release_early(p) ==
    /\ player[p].page \in {"ContributeWaitPage", "VoteWaitPage"}
    /\ player' = [player EXCEPT ![p].page = "Results"]
    /\ msg' = Event("Results", p)
    /\ resp' = [NoResp EXCEPT !.type = "page"]
    /\ UNCHANGED <<params, now, puzzles, group, coins, arrived, num_issued>>

\* a wait page lets the participant through to Results once its group's
\* after_all_players_arrive has run
WaitPage_release(p) ==
    /\ player[p].page \in {"ContributeWaitPage", "VoteWaitPage"}
    /\ arrived[player[p].round_number]
    /\ player' = [player EXCEPT ![p].page = "Results"]
    /\ msg' = Event("Results", p)
    /\ resp' = [NoResp EXCEPT !.type = "page"]
    /\ UNCHANGED <<params, now, puzzles, group, coins, arrived, num_issued>>

----------------------------------------------------------------------------
(* SpecPay: a contribution round from the Contribute page on. The three    *)
(* participants have left the Game page of round 1 by timeout, each having *)
(* solved n puzzles at the first attempt.                                  *)

NumCorrects == {0, 2, MaxCorrect}
ReportedIncomes == {Points(100 * k) : k \in 0..MaxReport}

\* the store of a participant who solved n puzzles, one per second
SolvedPuzzles(n) ==
    [i \in 1..n |->
        record_answer(NewPuzzle(i, i - 1), "ok", i - 1)]

\* the Player record that play_game and Game.before_next_page leave behind
AfterGame(r, n) ==
    [NewPlayer(r) EXCEPT
        !.page = "Contribute",
        !.iteration = n, !.num_trials = n, !.num_correct = n,
        !.real_effort_income = Some(Points(n * real_effort_multiplier))]

InitPay ==
    /\ params = creating_session(1, None)
    /\ \E n \in [Players -> NumCorrects] :
         /\ player = [p \in Players |-> AfterGame(1, n[p])]
         /\ puzzles = [p \in Players |-> SolvedPuzzles(n[p])]
         /\ num_issued = n
         /\ now = MaxCorrect
    /\ group = [r \in Rounds |->
                  IF r = 1 THEN [NewGroup EXCEPT !.audit_weight = Some(default_audit_prob)]
                  ELSE NewGroup]
    /\ msg = NoEvent
    /\ resp = NoResp
    /\ coins = NoCoins
    /\ arrived = [r \in Rounds |-> FALSE]

NextPay ==
    \/ \E p \in Players, income \in ReportedIncomes : Contribute_submit(p, income)
    \/ set_payoffs(1)

SpecPay == InitPay /\ [][NextPay]_vars

----------------------------------------------------------------------------
(* SpecVote: the vote round. Round 1 has been played with nothing earned   *)
(* and nothing reported; Game and Contribute are not displayed in the vote *)
(* round, so the participants start it on the Vote page.                   *)

InitVote ==
    /\ params = creating_session(1, None)
    /\ now = 0
    /\ player = [p \in Players |-> [NewPlayer(vote_round) EXCEPT !.page = "Vote"]]
    /\ puzzles = [p \in Players |-> <<>>]
    /\ group = [r \in Rounds |->
                  IF r = 1
                  THEN [NewGroup EXCEPT !.audit_weight = Some(default_audit_prob),
                                        !.total_tax_paid = Some(0),
                                        !.individual_share = Some(0)]
                  ELSE NewGroup]
    /\ msg = NoEvent
    /\ resp = NoResp
    /\ coins = NoCoins
    /\ arrived = [r \in Rounds |-> r < vote_round]
    /\ num_issued = [p \in Players |-> 0]

NextVote ==
    \/ \E p \in Players, vote \in BOOLEAN : Vote_submit(p, vote)
    \/ assign_treatment(vote_round)
    \/ \E p \in Players : WaitPage_release(p)

SpecVote == InitVote /\ [][NextVote]_vars

----------------------------------------------------------------------------
(* SpecSession: the whole session of one group, three rounds, the three    *)
(* participants moving through the pages at their own pace. The            *)
(* participants send no live message: each leaves the Game page with       *)
(* nothing solved.                                                         *)

page_sequence ==
    <<"Game", "Contribute", "ContributeWaitPage", "Vote", "VoteWaitPage", "Results">>

\* the is_displayed of each page class; Results has none
is_displayed(page, r) ==
    IF page \in {"Game", "Contribute", "ContributeWaitPage"} THEN r # vote_round
    ELSE IF page \in {"Vote", "VoteWaitPage"} THEN r = vote_round
    ELSE TRUE

\* the first page of page_sequence that round r displays
first_displayed(r) ==
    LET shown == {i \in 1..Len(page_sequence) : is_displayed(page_sequence[i], r)}
    IN  page_sequence[CHOOSE i \in shown : \A j \in shown : i <= j]

\* Results is the last page of the sequence: submitting it takes the
\* participant to the next round, whose Player record is fresh
Results_next(p) ==
    LET r == player[p].round_number
    IN  /\ player[p].page = "Results"
        /\ r < num_rounds
        /\ player' = [player EXCEPT
                         ![p] = [NewPlayer(r + 1) EXCEPT !.page = first_displayed(r + 1)]]
        /\ msg' = Event("next_round", p)
        /\ resp' = [NoResp EXCEPT !.type = "page"]
        /\ UNCHANGED <<params, now, puzzles, group, coins, arrived, num_issued>>

SessionReports == {0, Points(real_effort_multiplier)}

InitSession ==
    /\ params = creating_session(1, None)
    /\ now = 0
    /\ player = [p \in Players |-> [NewPlayer(1) EXCEPT !.page = first_displayed(1)]]
    /\ puzzles = [p \in Players |-> <<>>]
    /\ group = [r \in Rounds |-> NewGroup]
    /\ msg = NoEvent
    /\ resp = NoResp
    /\ coins = NoCoins
    /\ arrived = [r \in Rounds |-> FALSE]
    /\ num_issued = [p \in Players |-> 0]

NextSession ==
    \/ \E p \in Players, timeout_happened \in BOOLEAN :
         Game_before_next_page(p, timeout_happened)
    \/ \E p \in Players, income \in SessionReports : Contribute_submit(p, income)
    \/ \E r \in Rounds : set_payoffs(r)
    \/ \E p \in Players, vote \in BOOLEAN : Vote_submit(p, vote)
    \/ \E r \in Rounds : assign_treatment(r)
    \/ \E p \in Players : WaitPage_release(p)
    \/ \E p \in Players : Results_next(p)

SpecSession == InitSession /\ [][NextSession]_vars

----------------------------------------------------------------------------
(* Properties of the live protocol, checked under Spec *)

Current(p) == get_current_puzzle(player[p], puzzles[p])
Matching(p) == CurrentIdx(player[p], puzzles[p])

\* the step handled a live message of type t from participant p
Handled(t, p) == msg'.type = t /\ msg'.player = p

\* C1: after any sequence of load/next/answer messages, successful or failing,
\* player.iteration equals the number of `next` messages that issued a puzzle,
\* and the records with iteration == player.iteration number exactly one
\* when iteration >= 1 and none when iteration == 0.
C1_IterationCountsIssues ==
    \A p \in Players :
        /\ player[p].iteration = num_issued[p]
        /\ Cardinality(Matching(p)) <= 1
        /\ player[p].iteration >= 1 => Cardinality(Matching(p)) = 1
        /\ player[p].iteration = 0 => Matching(p) = {}

\* two puzzles were issued, and the last message was rejected
C1_Witness ==
    /\ player[1].iteration = 2
    /\ Len(puzzles[1]) = 2
    /\ resp.type = "error"

Answered(p) == {i \in 1..Len(puzzles[p]) : puzzles[p][i].response # None}

\* the counters are those of the latest judged attempt of every puzzle
CountersReflectLatest(p) ==
    LET pl == player[p]
        right == {i \in Answered(p) : puzzles[p][i].is_correct = Some(TRUE)}
        wrong == {i \in Answered(p) : puzzles[p][i].is_correct = Some(FALSE)}
    IN  /\ pl.num_trials = Cardinality(Answered(p))
        /\ pl.num_correct = Cardinality(right)
        /\ pl.num_failed = Cardinality(wrong)
        /\ pl.num_trials = pl.num_correct + pl.num_failed
        /\ pl.num_trials >= 0 /\ pl.num_correct >= 0 /\ pl.num_failed >= 0

\* C2: the counters reflect only the latest judged attempt per puzzle at the
\* start, and every step that is not a rejection (a successful `next` or
\* `answer`, retries included) keeps them so: num_trials is the number of
\* answered puzzles, num_correct / num_failed the number of those stored
\* correct / incorrect, num_trials = num_correct + num_failed, none negative.
C2_CountersReflectLatestAttempt ==
    /\ \A p \in Players : CountersReflectLatest(p)
    /\ [][\A p \in Players :
            (CountersReflectLatest(p) /\ resp'.type # "error")
                => CountersReflectLatest(p)']_vars

\* a retry turned a wrong answer of the second puzzle into a right one
C2_Witness ==
    /\ Len(puzzles[1]) = 2
    /\ puzzles[1][2].attempts = 2
    /\ puzzles[1][2].is_correct = Some(TRUE)
    /\ puzzles[1][1].is_correct = Some(FALSE)
    /\ msg.type = "answer" /\ resp.type = "feedback"
    /\ player[1].num_trials = 2
    /\ player[1].num_correct = 1
    /\ player[1].num_failed = 1

\* C3 (as claimed): whenever the current puzzle's attempts have reached
\* attempts_per_puzzle, an `answer` message fails with an error and attempts,
\* response and is_correct stay as they were.
C3_AnswerAtLimitFails ==
    [][\A p \in GamePlayers :
        (/\ Handled("answer", p)
         /\ Current(p) # None
         /\ Val(Current(p)).attempts >= params.attempts_per_puzzle)
            => (resp'.type = "error" /\ puzzles' = puzzles)]_vars

\* C4: while the current puzzle exists and has no response, every `next`
\* fails with an error, creates no record and leaves iteration unchanged; a
\* `next` issues a puzzle only when there is no current puzzle or it has a
\* response, so every record but the current one has been answered.
C4_NextOverUnansweredFails ==
    /\ [][\A p \in GamePlayers :
            /\ (/\ Handled("next", p)
                /\ Current(p) # None
                /\ Val(Current(p)).response = None)
                   => /\ resp'.type = "error"
                      /\ puzzles' = puzzles
                      /\ player'[p].iteration = player[p].iteration
            /\ (Handled("next", p) /\ resp'.type = "puzzle")
                   => (Current(p) = None \/ Val(Current(p)).response # None)]_vars
    /\ [](\A p \in Players : \A i \in 1..Len(puzzles[p]) :
            puzzles[p][i].iteration < player[p].iteration
                => puzzles[p][i].response # None)

\* a `next` over the unanswered first puzzle was rejected
C4_Witness ==
    /\ msg.type = "next"
    /\ resp.error = Some("trying to skip over unsolved puzzle")
    /\ player[1].iteration = 1
    /\ puzzles[1][1].response = None

C6_EarlyFinalizeIsRejected ==
    [][\A p \in GamePlayers :
        (/\ Handled("before_next_page", p)
         /\ msg'.timeout_happened = Some(FALSE)
         /\ \/ params.max_iterations = None
            \/ player[p].iteration < Val(params.max_iterations))
            => /\ resp'.type = "error"
               /\ player'[p].real_effort_income = None
               /\ player'[p].page = "Game"]_vars

\* C13: a `load` message changes no state (iteration, num_trials,
\* num_correct, num_failed and every Puzzle record stay as they are) and is
\* answered with a `status` message carrying the progress, plus the current
\* puzzle when one exists; so repeating it returns the same response.
C13_LoadIsReadOnly ==
    [][\A p \in GamePlayers :
        Handled("load", p)
            => /\ player' = player
               /\ puzzles' = puzzles
               /\ resp'.type = "status"
               /\ resp'.progress = Some(get_progress(player[p]))
               /\ resp'.puzzle = IF Current(p) # None
                                 THEN Some(encode_puzzle(Val(Current(p))))
                                 ELSE None
               /\ resp' = on_load(player'[p], puzzles'[p]).resp]_vars

\* a page was reloaded in the middle of the first puzzle
C13_Witness ==
    /\ msg.type = "load"
    /\ resp.type = "status"
    /\ player[1].iteration = 1
    /\ Len(puzzles[1]) = 1
    /\ puzzles[1][1].response = None
    /\ resp.puzzle = Some(encode_puzzle(puzzles[1][1]))

\* C14 (as claimed): whenever a `next` issues a new puzzle while a previous
\* puzzle exists, at least puzzle_delay has elapsed since the previous
\* puzzle's response_timestamp.
C14_NextWaitsAfterResponse ==
    [][\A p \in GamePlayers :
        (Handled("next", p) /\ resp'.type = "puzzle" /\ Current(p) # None)
            => now >= Val(Val(Current(p)).response_timestamp)
                          + params.puzzle_delay]_vars

\* C15: a retry `answer` (the current puzzle has a response and attempts <
\* limit) is judged only if at least retry_delay has elapsed since the
\* previous response_timestamp and is rejected with an error, nothing
\* recorded, otherwise; a first `answer` is never rejected for its timing;
\* an `answer` without a current puzzle is always rejected.
C15_RetryWaits ==
    [][\A p \in GamePlayers :
        Handled("answer", p) =>
            /\ (/\ Current(p) # None
                /\ Val(Current(p)).response # None
                /\ Val(Current(p)).attempts < params.attempts_per_puzzle)
                  => /\ resp'.type = "feedback"
                          => now >= Val(Val(Current(p)).response_timestamp)
                                        + params.retry_delay
                     /\ now < Val(Val(Current(p)).response_timestamp)
                                  + params.retry_delay
                          => (resp'.type = "error" /\ puzzles' = puzzles)
            /\ (Current(p) # None /\ Val(Current(p)).response = None)
                  => resp' # Raise("retrying too fast")
            /\ Current(p) = None
                  => (resp'.type = "error" /\ puzzles' = puzzles)]_vars

\* a retry sent in the second of the first answer was rejected
C15_Witness ==
    /\ msg.type = "answer"
    /\ resp = Raise("retrying too fast")
    /\ player[1].iteration = 1
    /\ puzzles[1][1].attempts = 1
    /\ puzzles[1][1].response_timestamp = Some(now)
    /\ params.attempts_per_puzzle = MaxAttempts

\* C16 (as claimed): with a non-null max_iterations, player.iteration and
\* the number of Puzzle records never exceed it; iteration never decreases
\* and changes only by +1, on a `next` that issues a puzzle.
C16_IterationWithinCap ==
    /\ [](\A p \in GamePlayers :
            params.max_iterations # None
                => /\ player[p].iteration <= Val(params.max_iterations)
                   /\ Len(puzzles[p]) <= Val(params.max_iterations))
    /\ [][\A p \in GamePlayers :
            player'[p].iteration # player[p].iteration
                => /\ player'[p].iteration = player[p].iteration + 1
                   /\ Handled("next", p)
                   /\ resp'.type = "puzzle"]_vars

\* what play_game reads and writes of participant p
LiveState(p) ==
    <<player[p].iteration, player[p].num_trials, player[p].num_correct,
      player[p].num_failed, puzzles[p]>>

\* C18 (as claimed): a message that play_game rejects with an error leaves
\* num_trials, num_correct, num_failed, iteration and every Puzzle record as
\* they were.
C18_RejectionChangesNothing ==
    [][\A p \in GamePlayers :
        (msg'.player = p /\ msg'.type \in {"load", "cheat", "next", "answer", "bogus"}
            /\ resp'.type = "error")
            => LiveState(p)' = LiveState(p)]_vars

\* C20: Puzzle records are append-only: the store grows only by one record,
\* on a `next` that issues a puzzle; no record is ever removed; a record
\* changes only on a judged `answer` and only if its iteration equals
\* player.iteration, so the records of smaller iterations stay as they are.
C20_RecordsAppendOnly ==
    [][\A p \in GamePlayers :
        /\ Len(puzzles'[p]) >= Len(puzzles[p])
        /\ Len(puzzles'[p]) > Len(puzzles[p])
             => /\ Len(puzzles'[p]) = Len(puzzles[p]) + 1
                /\ Handled("next", p)
                /\ resp'.type = "puzzle"
        /\ \A i \in 1..Len(puzzles[p]) :
             /\ puzzles'[p][i] # puzzles[p][i]
                  => /\ Handled("answer", p)
                     /\ resp'.type = "feedback"
                     /\ puzzles[p][i].iteration = player[p].iteration
             /\ puzzles[p][i].iteration < player[p].iteration
                  => puzzles'[p][i] = puzzles[p][i]]_vars

\* the second puzzle was answered, then answered again, beside the record
\* of the first
C20_Witness ==
    /\ Len(puzzles[1]) = 2
    /\ msg.type = "answer" /\ resp.type = "feedback"
    /\ puzzles[1][2].attempts = 2
    /\ puzzles[1][1].attempts = 1
    /\ puzzles[1][1].response_timestamp = Some(0)

----------------------------------------------------------------------------
(* Properties of the settlement, checked under SpecPay *)

Settled(r) == arrived[r] /\ \A p \in Players : player[p].round_number = r

Real(p) == Val(player[p].real_effort_income)
Reported(p) == Val(player[p].reported_income)
Tax(p) == Val(player[p].tax_paid)
Audited(p) == Val(player[p].if_audited)
Payoff(p) == Val(player[p].payoff)

\* C7: after set_payoffs, for every combination of reported incomes and
\* audit outcomes, tax_paid = 0.4 * reported_income for each player,
\* total_tax_paid is the sum of the three tax_paid, individual_share =
\* total_tax_paid * 0.5 / 3, and that one share is what every payoff
\* contains, audited or not; reports [100,200,300] give tax [40,80,120],
\* total 240, share 40.
C7_TaxAndShare ==
    Settled(1) =>
        LET total == Val(group[1].total_tax_paid)
            share == Val(group[1].individual_share)
        IN  /\ \A p \in Players : 10 * Tax(p) = 4 * Reported(p)
            /\ total = Tax(1) + Tax(2) + Tax(3)
            /\ 2 * 3 * share = total
            /\ \A p \in Players :
                 Payoff(p) - (Real(p) - Tax(p))
                     + (IF Audited(p) = 1 THEN Real(p) - Reported(p) ELSE 0) = share
            /\ (Reported(1) = Points(100) /\ Reported(2) = Points(200)
                    /\ Reported(3) = Points(300))
                 => /\ Tax(1) = Points(40) /\ Tax(2) = Points(80) /\ Tax(3) = Points(120)
                    /\ total = Points(240)
                    /\ share = Points(40)

\* reports [100,200,300] were settled, one player audited and two not
C7_Witness ==
    /\ Settled(1)
    /\ Reported(1) = Points(100) /\ Reported(2) = Points(200) /\ Reported(3) = Points(300)
    /\ Audited(1) = 1 /\ Audited(2) = 0 /\ Audited(3) = 0
    /\ group[1].individual_share = Some(Points(40))

\* C8: after set_payoffs a player with if_audited == 0 has payoff =
\* real_effort_income - tax_paid + individual_share, a player with
\* if_audited == 1 has that payoff less penalty_multiplier * tax_rate *
\* (real_effort_income - reported_income), where penalty_multiplier *
\* tax_rate = 1 (real 500, reported 100: penalty 400, payoff 500 - 40 +
\* share - 400); a player's payoff depends on no other player's audit.
C8_Payoff ==
    Settled(1) =>
        LET share == Val(group[1].individual_share)
        IN  /\ penalty_multiplier * tax_rate = Percent * Percent
            /\ \A p \in Players :
                 /\ Audited(p) \in {0, 1}
                 /\ Audited(p) = 0 => Payoff(p) = Real(p) - Tax(p) + share
                 /\ Audited(p) = 1 =>
                      Payoff(p) = Real(p) - Tax(p) + share - (Real(p) - Reported(p))
                 /\ (Audited(p) = 1 /\ Real(p) = Points(500) /\ Reported(p) = Points(100))
                      => Payoff(p) = Points(500) - Points(40) + share - Points(400)

\* an audited player with real 500 and reported 100, beside an unaudited
\* player with the same incomes
C8_Witness ==
    /\ Settled(1)
    /\ Real(1) = Points(500) /\ Reported(1) = Points(100) /\ Audited(1) = 1
    /\ Real(2) = Points(500) /\ Reported(2) = Points(100) /\ Audited(2) = 0
    /\ Payoff(2) - Payoff(1) = Points(400)

\* C19 (as claimed): for every real_effort_income >= 0 and every
\* reported_income >= 0, a player's payoff when audited is never greater
\* than the payoff the same incomes give when not audited (the penalty is
\* never negative).
C19_AuditNeverPays ==
    Settled(1) =>
        \A p \in Players :
            (Real(p) >= 0 /\ Reported(p) >= 0 /\ Audited(p) = 1)
                => Payoff(p) <= payoff_of(Real(p), Reported(p), Tax(p),
                                          Val(group[1].individual_share), 0)

----------------------------------------------------------------------------
(* Properties of the treatment assignment, checked under SpecVote *)

Voted(r) == arrived[r] /\ \A p \in Players : player[p].round_number = r

YesVotes == {p \in Players : player[p].if_vote = Some(TRUE)}

\* C9: for every combination of votes, when the override coin does not
\* fire, treatment is 'EndoYes' if and only if at least 2 of the 3 players
\* voted yes and 'EndoNo' otherwise; total_if_vote is always the number of
\* yes votes.
C9_MajorityDecides ==
    Voted(vote_round) =>
        /\ group[vote_round].total_if_vote = Some(Cardinality(YesVotes))
        /\ coins.computer_control = Some(0) =>
             /\ group[vote_round].treatment = Some("EndoYes")
                    <=> Cardinality(YesVotes) >= 2
             /\ group[vote_round].treatment = Some("EndoNo")
                    <=> Cardinality(YesVotes) < 2

\* votes [true, true, false] without override resolved to EndoYes
C9_Witness ==
    /\ Voted(vote_round)
    /\ player[1].if_vote = Some(TRUE)
    /\ player[2].if_vote = Some(TRUE)
    /\ player[3].if_vote = Some(FALSE)
    /\ coins.computer_control = Some(0)
    /\ group[vote_round].treatment = Some("EndoYes")

\* C10: after assign_treatment the treatment is 'ExoYes' or 'ExoNo' if and
\* only if if_override is set, and 'EndoYes' or 'EndoNo' if and only if it is
\* not; if_override is set exactly when the first coin fires; under override
\* the second coin alone chooses between 'ExoYes' and 'ExoNo', and
\* total_if_vote still records the tally.
C10_OverrideDecides ==
    Voted(vote_round) =>
        LET g == group[vote_round]
        IN  /\ g.if_override \in {Some(1), Some(0)}
            /\ g.if_override = coins.computer_control
            /\ g.treatment \in {Some("ExoYes"), Some("ExoNo")} <=> g.if_override = Some(1)
            /\ g.treatment \in {Some("EndoYes"), Some("EndoNo")} <=> g.if_override = Some(0)
            /\ g.if_override = Some(1) =>
                 /\ coins.dice = Some(1) => g.treatment = Some("ExoYes")
                 /\ coins.dice = Some(0) => g.treatment = Some("ExoNo")
            /\ g.total_if_vote = Some(Cardinality(YesVotes))

\* a unanimous yes vote was overridden to ExoNo
C10_Witness ==
    /\ Voted(vote_round)
    /\ Cardinality(YesVotes) = 3
    /\ group[vote_round].if_override = Some(1)
    /\ group[vote_round].treatment = Some("ExoNo")
    /\ group[vote_round].total_if_vote = Some(3)

----------------------------------------------------------------------------
(* Properties of the session, checked under SpecSession *)

LaterRounds == {r \in Rounds : r > vote_round}
Labels == {"EndoYes", "EndoNo", "ExoYes", "ExoNo"}

\* some participant of round r has left the Game page of that round
GameLeft(r) ==
    \E p \in Players : player[p].round_number = r /\ player[p].page # "Game"

\* the treatment is written by assign_treatment, once, in the vote round,
\* and by lookup of the vote round's value in a later round
TreatmentWrittenOnceThenCopied ==
    \A r \in Rounds :
        group'[r].treatment # group[r].treatment
            => \/ /\ r = vote_round
                  /\ msg'.type = "assign_treatment"
                  /\ AllOn(vote_round, "VoteWaitPage")
                  /\ group[r].treatment = None
                  /\ group'[r].treatment \in {Some(l) : l \in Labels}
               \/ /\ r \in LaterRounds
                  /\ msg'.type = "before_next_page"
                  /\ player[msg'.player].round_number = r
                  /\ group'[r].treatment = group[vote_round].treatment
                  /\ group'[vote_round] = group[vote_round]

\* C11 (as claimed): over the three rounds the treatment is computed once,
\* by assign_treatment in the vote round, nothing later changes the
\* vote-round value, and in every round after the vote round the group's
\* treatment equals the vote-round value.
C11_LaterRoundsHoldTreatment ==
    /\ [][TreatmentWrittenOnceThenCopied]_vars
    /\ [](\A r \in LaterRounds :
            (\E p \in Players : player[p].round_number = r)
                => group[r].treatment = group[vote_round].treatment)

\* C11 (amended): over the three rounds the treatment is computed once, by
\* assign_treatment in the vote round, and nothing later changes the
\* vote-round value; the group of a later round has no treatment until the
\* first Game.before_next_page of that round, which copies the vote-round
\* value, and from then on its treatment equals the vote-round value; the
\* groups of the rounds before the vote round never have one.
C11_LaterRoundsCopyTreatment ==
    /\ [][TreatmentWrittenOnceThenCopied]_vars
    /\ [](\A r \in LaterRounds :
            /\ group[r].treatment \in {None, group[vote_round].treatment}
            /\ GameLeft(r) => /\ group[r].treatment # None
                              /\ group[r].treatment = group[vote_round].treatment)
    /\ [](\A r \in Rounds : r < vote_round => group[r].treatment = None)

\* the last round is over, its group holding the label the vote round drew
C11_Witness ==
    /\ AllOn(num_rounds, "Results")
    /\ group[vote_round].treatment = Some("ExoYes")
    /\ group[num_rounds].treatment = Some("ExoYes")
    /\ coins.dice = Some(1)

\* the round whose participants all wait on the given page, if there is one
BarrierRounds(page) == {r \in Rounds : AllOn(r, page)}

\* C12: for every interleaving, set_payoffs runs only when all three
\* participants have submitted reported_income and only in a non-vote round,
\* assign_treatment only when all three have submitted if_vote and only in
\* the vote round; each runs once per round (it runs for a round whose
\* barrier has not run, nothing else passes a barrier or writes the
\* settlement, and a participant is in a later round only after the
\* barrier of every earlier round has run); no participant is on Results
\* before the barrier operation of its round has run.
C12_BarriersRunOnceAfterAll ==
    /\ [](\A p \in Players :
            /\ player[p].page = "Results" => arrived[player[p].round_number]
            /\ \A r \in Rounds : r < player[p].round_number => arrived[r])
    /\ [][/\ msg'.type = "set_payoffs"
             => \E r \in BarrierRounds("ContributeWaitPage") :
                   /\ r # vote_round
                   /\ \A p \in Players : player[p].reported_income # None
                   /\ ~arrived[r]
                   /\ arrived' = [arrived EXCEPT ![r] = TRUE]
          /\ msg'.type = "assign_treatment"
             => /\ AllOn(vote_round, "VoteWaitPage")
                /\ \A p \in Players : player[p].if_vote # None
                /\ ~arrived[vote_round]
                /\ arrived' = [arrived EXCEPT ![vote_round] = TRUE]
          /\ arrived' # arrived
             => msg'.type \in {"set_payoffs", "assign_treatment"}
          /\ \A r \in Rounds :
                /\ (group'[r].total_tax_paid # group[r].total_tax_paid
                      \/ group'[r].individual_share # group[r].individual_share)
                     => (msg'.type = "set_payoffs" /\ r # vote_round /\ ~arrived[r])
                /\ group'[r].total_if_vote # group[r].total_if_vote
                     => (msg'.type = "assign_treatment" /\ r = vote_round /\ ~arrived[r])
          /\ \A p \in Players :
                (player'[p].payoff # None /\ player'[p].payoff # player[p].payoff)
                    => msg'.type = "set_payoffs"]_vars

\* the session is over: every barrier has run and the three participants
\* are on the Results page of the last round
C12_Witness ==
    /\ AllOn(num_rounds, "Results")
    /\ \A r \in Rounds : arrived[r]
    /\ \A r \in Rounds \ {vote_round} : group[r].individual_share # None
    /\ group[vote_round].total_if_vote = Some(players_per_group - 1)

\* the audit probability of round r, from the round's position and the
\* vote round's treatment
ExpectedWeight(r) ==
    IF r < vote_round THEN default_audit_prob
    ELSE IF group[vote_round].treatment \in {Some("EndoYes"), Some("ExoYes")}
         THEN modified_audit_prob
         ELSE default_audit_prob

\* C17: in every contribution round and for every interleaving, when
\* set_payoffs draws the audits group.audit_weight has been set by
\* Game.before_next_page: 0.2 before the vote round; after it 0.5 if the
\* vote-round treatment is EndoYes or ExoYes and 0.2 if it is EndoNo or
\* ExoNo; every participant's write of a round stores that same value.
C17_AuditWeightSetBeforeAudit ==
    /\ [](/\ 5 * default_audit_prob = Percent
          /\ 2 * modified_audit_prob = Percent
          /\ \A r \in Rounds \ {vote_round} :
               /\ group[r].audit_weight \in {None, Some(ExpectedWeight(r))}
               /\ (group[r].audit_weight # None /\ r > vote_round)
                    => group[vote_round].treatment \in {Some(l) : l \in Labels})
    /\ [][/\ msg'.type = "set_payoffs"
             => \E r \in BarrierRounds("ContributeWaitPage") :
                   /\ group[r].audit_weight = Some(ExpectedWeight(r))
                   /\ \A p \in Players :
                        player'[p].if_audited \in
                            {Some(x) : x \in audit_draws(ExpectedWeight(r))}
          /\ \A p \in Players :
                (Handled("before_next_page", p) /\ resp'.type = "page")
                    => LET r == player[p].round_number
                       IN  /\ group'[r].audit_weight = Some(ExpectedWeight(r))
                           /\ group[r].audit_weight # None
                                => group'[r].audit_weight = group[r].audit_weight]_vars

\* the audits of the last round were drawn at 0.5 after the coin chose
\* ExoYes, those of the first round at 0.2
C17_Witness ==
    /\ msg.type = "set_payoffs"
    /\ AllOn(num_rounds, "ContributeWaitPage")
    /\ group[vote_round].treatment = Some("ExoYes")
    /\ group[num_rounds].audit_weight = Some(modified_audit_prob)
    /\ group[1].audit_weight = Some(default_audit_prob)
    /\ player[1].if_audited = Some(1)

====
